---- MODULE Spec2Model ----
(***************************************************************************)
(* A model of kust's ScopeFunctions trait (src/modules/scope_functions.rs) *)
(* : the three provided methods `using`, `also` and `apply`, the blanket   *)
(* impl that makes them callable on every sized type, and the callers of   *)
(* the three doctests.                                                     *)
(*                                                                         *)
(* A behaviour is one caller program: a short sequence of method calls     *)
(* (and of the caller's own writeln!/summary steps).  A call is executed   *)
(* step by step: the method is entered, the closure is invoked, the        *)
(* closure's statements run one at a time, the closure returns (or         *)
(* panics), and the method returns (or unwinds).                           *)
(***************************************************************************)
EXTENDS Integers, Sequences, FiniteSets, TLC

VARIABLES
    prog,     \* the caller's program: a sequence of steps
    ip,       \* index of the caller's next (or current) step
    outs,     \* the values the caller has received so far, oldest first
    output,   \* the String the closures and the caller write lines to
    pc,       \* position: idle, entry, closure, resumed, returned, unwinding, panicked
    op,       \* the method whose body is executing
    self,     \* the method's `self` parameter
    f,        \* the method's `f` parameter
    carg,     \* the closure's parameter: an owned value or a reference to self
    cpc,      \* index of the closure's next statement
    borrows,  \* the borrows of `self` that are alive
    invoked,  \* how many times the current call has invoked its closure
    result,   \* the closure's return value (the R of FnOnce(..) -> R)
    ret,      \* the value the method returned to the caller
    panic     \* the payload of the panic in flight, "" when there is none

vars == <<prog, ip, outs, output, pc, op, self, f, carg, cpc, borrows,
          invoked, result, ret, panic>>

----------------------------------------------------------------------------
(* Bounds of the model.                                                    *)

\* integers used as values, list elements and cell contents: -1..MaxInt
MaxInt == 2
\* longest generated list
MaxLen == 2
\* how many times the no-op `also` is chained
MaxRepeat == 3
\* most statements in the body of a generated closure
MaxBody == 2

----------------------------------------------------------------------------
(* Values.  Every value carries its type in the field t.                   *)

IntV(i) == [t |-> "Int", int |-> i]
VecV(s) == [t |-> "Vec", vec |-> s]
PersonV(n, a) == [t |-> "Person", name |-> n, age |-> a]
CellV(x) == [t |-> "Cell", cell |-> x]
PairV(a, b) == [t |-> "Pair", fst |-> a, snd |-> b]
UnitV == [t |-> "Unit"]
StringV(fmt, args) == [t |-> "String", fmt |-> fmt, args |-> args]
\* a parameter or local that holds nothing: moved out, dropped, or not yet set
Moved == [t |-> "Moved"]
\* a reference to the method's `self`
Ref(m) == [t |-> "Ref", mut |-> m]

\* Person::create of the apply doctest
Create(name) == PersonV(name, 0)

\* Person::summary of the apply doctest
Summary(p) == StringV("Name: {}, age: {}", <<p.name, p.age>>)

----------------------------------------------------------------------------
(* Closures: a body of statements and a tail expression.                   *)

Closure(body, e) == [body |-> body, ret |-> e]

\* statements
Log(n) == [k |-> "log", n |-> n]            \* writeln!(output, "{n} * 2 = {d}")
SetAge(a) == [k |-> "setAge", a |-> a]      \* p.age = a
SetName(n) == [k |-> "setName", name |-> n] \* p.name = n
IncAge == [k |-> "incAge"]                  \* p.age += 1
Assign(i) == [k |-> "assign", int |-> i]    \* *x = i
CellSet(x) == [k |-> "cellSet", x |-> x]    \* c.set(x), through a shared reference
Panic(m) == [k |-> "panic", msg |-> m]      \* panic!(m)

\* tail expressions
RetUnit == [k |-> "unit"]
RetConst(c) == [k |-> "const", c |-> c]
RetSelf == [k |-> "self"]
RetAvgMed == [k |-> "avgmed"]
RetAge == [k |-> "age"]

RECURSIVE SumSeq(_)
SumSeq(s) == IF s = <<>> THEN 0 ELSE s[1] + SumSeq(Tail(s))

Abs(a) == IF a < 0 THEN 0 - a ELSE a

\* i32 division truncates toward zero (b > 0 here: b is a length)
TruncDiv(a, b) == IF a >= 0 THEN a \div b ELSE 0 - (Abs(a) \div b)

Ok(v) == [ok |-> TRUE, val |-> v, msg |-> ""]
Err(m) == [ok |-> FALSE, val |-> Moved, msg |-> m]

\* mutant of AvgMed: the middle index taken one too low
AvgMed_OffByOne(s) ==
    IF Len(s) = 0 THEN Err("attempt to divide by zero")
    ELSE Ok(PairV(TruncDiv(SumSeq(s), Len(s)), s[(Len(s) + 1) \div 2]))

\* (v.iter().sum::<i32>() / v.len() as i32, v[v.len() / 2])
AvgMed(s) ==
    IF Len(s) = 0 THEN Err("attempt to divide by zero")
    ELSE Ok(PairV(TruncDiv(SumSeq(s), Len(s)), s[(Len(s) \div 2) + 1]))

\* the value of a closure's tail expression, v being what its parameter shows
EvalRet(e, v) ==
    CASE e.k = "unit" -> Ok(UnitV)
      [] e.k = "const" -> Ok(IntV(e.c))
      [] e.k = "self" -> Ok(v)
      [] e.k = "avgmed" -> AvgMed(v.vec)
      [] e.k = "age" -> Ok(IntV(v.age))

\* the value a writing statement leaves in the place it writes to
Write(s, v) ==
    CASE s.k = "setAge" -> [v EXCEPT !.age = s.a]
      [] s.k = "incAge" -> [v EXCEPT !.age = @ + 1]
      [] s.k = "setName" -> [v EXCEPT !.name = s.name]
      [] s.k = "assign" -> [v EXCEPT !.int = s.int]
      [] s.k = "cellSet" -> [v EXCEPT !.cell = s.x]

\* the line a logging statement writes
Line(n, v) == [n |-> n, d |-> v]

\* writeln!(output, "The sum is {sum}")
SumLine(s) == [sum |-> s]

\* writeln!(output, "Average and median: {:?}", ..)
DebugLine(v) == [debug |-> v]

WriteKinds == {"setAge", "incAge", "setName", "assign", "cellSet"}
IsWrite(s) == s.k \in WriteKinds

\* |p| { h1(p); h2(p) }
Compose(h1, h2) == Closure(h1.body \o h2.body, h2.ret)

----------------------------------------------------------------------------
(* The inputs: values, closures and caller programs.                       *)

Ints == (0 - 1)..MaxInt
Tags == 1..2

\* the two input lines of the using doctest, parsed
Line1 == <<8, 4, 19, 30, 1, 0>>
Line2 == <<1, 4, 7, 11, 9, 5>>
\* nums of the also doctest
Nums == <<1, 2, 3, 4>>
\* infos of the apply doctest
Infos == <<<<"Mike", 34>>, <<"Linda", 25>>>>

Names == {Infos[i][1] : i \in 1..Len(Infos)}
Ages == {Infos[i][2] : i \in 1..Len(Infos)}

\* list elements, and the integers closures write
Elems == {0 - 1, 1, MaxInt}
WriteInts == {0, MaxInt}

SeqsUpTo(n) == UNION {[1..k -> Elems] : k \in 0..n}

IntValues == {IntV(i) : i \in Ints}
VecValues == {VecV(s) : s \in SeqsUpTo(MaxLen) \cup {Line1, Line2}}
PersonValues == {Create(n) : n \in Names} \cup {PersonV(Infos[1][1], Infos[2][2])}
CellValues == {CellV(x) : x \in Ints}
Values == IntValues \cup VecValues \cup PersonValues \cup CellValues

\* what the closure parameter of each method is: Self, &Self, &mut Self
Mode(o) == CASE o = "using" -> "owned" [] o = "also" -> "shared" [] o = "apply" -> "mut"

Ops == {"using", "also", "apply"}

\* the statements a closure over a value of type t may contain: writes need
\* ownership or a mutable reference, except writes to a Cell
Stmts(m, t) ==
    {Log(n) : n \in Tags} \cup {Panic("boom")}
    \cup (IF t = "Cell" THEN {CellSet(x) : x \in WriteInts} ELSE {})
    \cup (IF m # "shared" /\ t = "Person"
          THEN {SetAge(a) : a \in Ages} \cup {SetName(n) : n \in Names} \cup {IncAge}
          ELSE {})
    \cup (IF m # "shared" /\ t = "Int" THEN {Assign(i) : i \in WriteInts} ELSE {})

Rets(m, t) ==
    {RetUnit, RetConst(7)}
    \cup (IF t = "Vec" THEN {RetAvgMed} ELSE {})
    \cup (IF t = "Person" THEN {RetAge} ELSE {})
    \cup (IF m = "owned" THEN {RetSelf} ELSE {})

BodiesUpTo(n, m, t) == UNION {[1..k -> Stmts(m, t)] : k \in 0..n}
Bodies(m, t) == BodiesUpTo(1, m, t)

\* the closures a call of method o on a value of type t accepts
Closures(o, t) == {Closure(b, e) : b \in Bodies(Mode(o), t), e \in Rets(Mode(o), t)}
\* closures of up to MaxBody statements, for also and apply
LongClosures(o, t) ==
    {Closure(b, e) : b \in BodiesUpTo(IF o = "using" THEN 1 ELSE MaxBody, Mode(o), t),
                     e \in Rets(Mode(o), t)}

NoOp == Closure(<<>>, RetUnit)

\* the caller's steps
Call(o, v, c) == [k |-> "call", op |-> o, v |-> v, f |-> c]
\* the receiver of a chained call is the value the previous call returned
Prev == [t |-> "Prev"]
WritelnSum == [k |-> "writelnSum"]
WritelnDebug == [k |-> "writelnDebug"]
SummaryStep == [k |-> "summary"]

CallsOf(o, v) == {Call(o, v, c) : c \in Closures(o, v.t)}
Singles == UNION {CallsOf(o, v) : o \in Ops, v \in Values}

\* one call
LongCallsOf(o, v) == {Call(o, v, c) : c \in LongClosures(o, v.t)}
SinglePrograms == {<<s>> : s \in UNION {LongCallsOf(o, v) : o \in Ops, v \in Values}}

\* v.apply(h1).apply(h2), then v.apply(|p| { h1(p); h2(p) })
ChainValues == PersonValues \cup IntValues \cup CellValues
ChainPrograms ==
    UNION {{<<Call("apply", v, h1), Call("apply", Prev, h2),
              Call("apply", v, Compose(h1, h2))>> :
                h1 \in {Closure(b, RetUnit) : b \in Bodies("mut", v.t)},
                h2 \in Closures("apply", v.t)} :
           v \in ChainValues}

\* the same call twice, with closures that differ in their tail expression only
PairPrograms ==
    UNION {{<<Call(o, v, Closure(b, e1)), Call(o, v, Closure(b, e2))>> :
                b \in Bodies(Mode(o), v.t),
                e1 \in Rets(Mode(o), v.t), e2 \in Rets(Mode(o), v.t) \ {RetUnit}} :
           o \in {"also", "apply"}, v \in Values}

\* v.also(no-op).also(no-op)...
RepeatProgram(v, n) ==
    [i \in 1..n |-> Call("also", IF i = 1 THEN v ELSE Prev, NoOp)]
RepeatPrograms == {RepeatProgram(v, n) : v \in Values, n \in 1..MaxRepeat}

\* a logging call followed by any call
SeqPrograms ==
    {<<Call(o, IntV(0), Closure(<<Log(1)>>, RetUnit)), s>> : o \in Ops, s \in Singles}

\* the using doctest: per input line, v.using(|v| (sum / len, v[len / 2]))
\* inside a writeln!
UsingDoctest ==
    <<Call("using", VecV(Line1), Closure(<<>>, RetAvgMed)), WritelnDebug,
      Call("using", VecV(Line2), Closure(<<>>, RetAvgMed)), WritelnDebug>>

\* the also doctest: (n * 2).also(|d| writeln!(output, "{n} * 2 = {d}"))
\* for each n of nums, summed, then the sum is written
AlsoDoctest ==
    [i \in 1..Len(Nums) |->
        Call("also", IntV(Nums[i] * 2), Closure(<<Log(Nums[i])>>, RetUnit))]
    \o <<WritelnSum>>

\* the apply doctest: Person::create(name).apply(|p| p.age = age).summary()
\* for each (name, age) of infos
ApplyDoctest ==
    <<Call("apply", Create(Infos[1][1]), Closure(<<SetAge(Infos[1][2])>>, RetUnit)),
      SummaryStep,
      Call("apply", Create(Infos[2][1]), Closure(<<SetAge(Infos[2][2])>>, RetUnit)),
      SummaryStep>>

Doctests == {UsingDoctest, AlsoDoctest, ApplyDoctest}

Programs ==
    SinglePrograms \cup ChainPrograms \cup PairPrograms \cup RepeatPrograms
    \cup SeqPrograms \cup Doctests

----------------------------------------------------------------------------
(* The caller.                                                             *)

Init ==
    /\ prog \in Programs
    /\ ip = 1
    /\ outs = <<>>
    /\ output = <<>>
    /\ pc = "idle"
    /\ op = "none"
    /\ self = Moved
    /\ f = Moved
    /\ carg = Moved
    /\ cpc = 0
    /\ borrows = <<>>
    /\ invoked = 0
    /\ result = Moved
    /\ ret = Moved
    /\ panic = ""

AtStep(kind) == pc = "idle" /\ ip <= Len(prog) /\ prog[ip].k = kind

\* the receiver of a call: a literal, or what the previous call returned
ArgOf(step) == IF step.v.t = "Prev" THEN outs[Len(outs)] ELSE step.v

\* the caller evaluates v.using(c): control enters the method with self and f bound
CallUsing ==
    /\ AtStep("call")
    /\ prog[ip].op = "using"
    /\ op' = "using"
    /\ self' = ArgOf(prog[ip])
    /\ f' = prog[ip].f
    /\ pc' = "entry"
    /\ invoked' = 0
    /\ cpc' = 0
    /\ UNCHANGED <<prog, ip, outs, output, carg, borrows, result, ret, panic>>

\* v.also(c)
CallAlso ==
    /\ AtStep("call")
    /\ prog[ip].op = "also"
    /\ op' = "also"
    /\ self' = ArgOf(prog[ip])
    /\ f' = prog[ip].f
    /\ pc' = "entry"
    /\ invoked' = 0
    /\ cpc' = 0
    /\ UNCHANGED <<prog, ip, outs, output, carg, borrows, result, ret, panic>>

\* mutant of CallApply: the method keeps the value of the previous call and
\* starts from it when the new receiver has the same type
CallApply_Cached ==
    /\ AtStep("call")
    /\ prog[ip].op = "apply"
    /\ op' = "apply"
    /\ self' = IF outs # <<>> /\ outs[Len(outs)].t = ArgOf(prog[ip]).t
               THEN outs[Len(outs)] ELSE ArgOf(prog[ip])
    /\ f' = prog[ip].f
    /\ pc' = "entry"
    /\ invoked' = 0
    /\ cpc' = 0
    /\ UNCHANGED <<prog, ip, outs, output, carg, borrows, result, ret, panic>>

\* v.apply(c)
CallApply ==
    /\ AtStep("call")
    /\ prog[ip].op = "apply"
    /\ op' = "apply"
    /\ self' = ArgOf(prog[ip])
    /\ f' = prog[ip].f
    /\ pc' = "entry"
    /\ invoked' = 0
    /\ cpc' = 0
    /\ UNCHANGED <<prog, ip, outs, output, carg, borrows, result, ret, panic>>

\* the caller takes the returned value and goes on to its next step
Resume ==
    /\ pc = "returned"
    /\ outs' = Append(outs, ret)
    /\ ret' = Moved
    /\ ip' = ip + 1
    /\ pc' = "idle"
    /\ op' = "none"
    /\ UNCHANGED <<prog, output, self, f, carg, cpc, borrows, invoked, result, panic>>

\* using doctest: writeln!(output, "Average and median: {:?}", <the call>)
CallerWritelnDebug ==
    /\ AtStep("writelnDebug")
    /\ output' = Append(output, DebugLine(outs[Len(outs)]))
    /\ ip' = ip + 1
    /\ UNCHANGED <<prog, outs, pc, op, self, f, carg, cpc, borrows, invoked,
                   result, ret, panic>>

\* also doctest: let sum: i32 = ...sum(); writeln!(output, "The sum is {sum}")
CallerWritelnSum ==
    /\ AtStep("writelnSum")
    /\ output' = Append(output, SumLine(SumSeq([i \in 1..Len(outs) |-> outs[i].int])))
    /\ ip' = ip + 1
    /\ UNCHANGED <<prog, outs, pc, op, self, f, carg, cpc, borrows, invoked,
                   result, ret, panic>>

\* apply doctest: <the call>.summary()
CallerSummary ==
    /\ AtStep("summary")
    /\ outs' = [outs EXCEPT ![Len(outs)] = Summary(@)]
    /\ ip' = ip + 1
    /\ UNCHANGED <<prog, output, pc, op, self, f, carg, cpc, borrows, invoked,
                   result, ret, panic>>

----------------------------------------------------------------------------
(* The three methods.                                                      *)

\* using, line 40: f(self) -- self is moved into the closure
UsingInvoke ==
    /\ pc = "entry" /\ op = "using"
    /\ carg' = self
    /\ self' = Moved
    /\ invoked' = invoked + 1
    /\ cpc' = 1
    /\ pc' = "closure"
    /\ UNCHANGED <<prog, ip, outs, output, op, f, borrows, result, ret, panic>>

\* mutant of AlsoInvoke: the closure is not run during the call
AlsoInvoke_Deferred ==
    /\ pc = "entry" /\ op = "also"
    /\ result' = UnitV
    /\ f' = Moved
    /\ cpc' = Len(f.body) + 1
    /\ invoked' = invoked + 1
    /\ pc' = "resumed"
    /\ UNCHANGED <<prog, ip, outs, output, op, self, carg, borrows, ret, panic>>

\* also, line 72: f(&self)
AlsoInvoke ==
    /\ pc = "entry" /\ op = "also"
    /\ carg' = Ref(FALSE)
    /\ borrows' = Append(borrows, "shared")
    /\ invoked' = invoked + 1
    /\ cpc' = 1
    /\ pc' = "closure"
    /\ UNCHANGED <<prog, ip, outs, output, op, self, f, result, ret, panic>>

\* mutant of ApplyInvoke: the closure is given a copy of self to mutate
ApplyInvoke_Copy ==
    /\ pc = "entry" /\ op = "apply"
    /\ carg' = self
    /\ borrows' = Append(borrows, "mut")
    /\ invoked' = invoked + 1
    /\ cpc' = 1
    /\ pc' = "closure"
    /\ UNCHANGED <<prog, ip, outs, output, op, self, f, result, ret, panic>>

\* apply, line 114: f(&mut self)
ApplyInvoke ==
    /\ pc = "entry" /\ op = "apply"
    /\ carg' = Ref(TRUE)
    /\ borrows' = Append(borrows, "mut")
    /\ invoked' = invoked + 1
    /\ cpc' = 1
    /\ pc' = "closure"
    /\ UNCHANGED <<prog, ip, outs, output, op, self, f, result, ret, panic>>

\* mutant of UsingReturn: the closure's value is dropped, as also and apply do
UsingReturn_Discard ==
    /\ pc = "resumed" /\ op = "using"
    /\ ret' = UnitV
    /\ result' = Moved
    /\ pc' = "returned"
    /\ UNCHANGED <<prog, ip, outs, output, op, self, f, carg, cpc, borrows,
                   invoked, panic>>

\* using, line 40: the closure's value is the method's value
UsingReturn ==
    /\ pc = "resumed" /\ op = "using"
    /\ ret' = result
    /\ result' = Moved
    /\ pc' = "returned"
    /\ UNCHANGED <<prog, ip, outs, output, op, self, f, carg, cpc, borrows,
                   invoked, panic>>

\* mutant of AlsoReturn: the closure's value is returned, as using does
AlsoReturn_ReturnsResult ==
    /\ pc = "resumed" /\ op = "also"
    /\ ret' = result
    /\ self' = Moved
    /\ result' = Moved
    /\ pc' = "returned"
    /\ UNCHANGED <<prog, ip, outs, output, op, f, carg, cpc, borrows, invoked, panic>>

\* mutant of AlsoReturn: a value of the closure other than () replaces self
AlsoReturn_UnlessUnit ==
    /\ pc = "resumed" /\ op = "also"
    /\ ret' = IF result = UnitV THEN self ELSE result
    /\ self' = Moved
    /\ result' = Moved
    /\ pc' = "returned"
    /\ UNCHANGED <<prog, ip, outs, output, op, f, carg, cpc, borrows, invoked, panic>>

\* mutant of AlsoReturn: a fresh default value is returned in place of self
AlsoReturn_Default ==
    /\ pc = "resumed" /\ op = "also"
    /\ ret' = CASE self.t = "Int" -> IntV(0)
                [] self.t = "Vec" -> VecV(<<>>)
                [] self.t = "Cell" -> CellV(0)
                [] self.t = "Person" -> PersonV("", 0)
    /\ self' = Moved
    /\ result' = Moved
    /\ pc' = "returned"
    /\ UNCHANGED <<prog, ip, outs, output, op, f, carg, cpc, borrows, invoked, panic>>

\* also, lines 72-73: the closure's value is dropped at the `;`, self is returned
AlsoReturn ==
    /\ pc = "resumed" /\ op = "also"
    /\ ret' = self
    /\ self' = Moved
    /\ result' = Moved
    /\ pc' = "returned"
    /\ UNCHANGED <<prog, ip, outs, output, op, f, carg, cpc, borrows, invoked, panic>>

\* mutant of ApplyReturn: the value as it was received is returned
ApplyReturn_Snapshot ==
    /\ pc = "resumed" /\ op = "apply"
    /\ ret' = ArgOf(prog[ip])
    /\ self' = Moved
    /\ result' = Moved
    /\ pc' = "returned"
    /\ UNCHANGED <<prog, ip, outs, output, op, f, carg, cpc, borrows, invoked, panic>>

\* apply, lines 114-115: the closure's value is dropped at the `;`, self is returned
ApplyReturn ==
    /\ pc = "resumed" /\ op = "apply"
    /\ ret' = self
    /\ self' = Moved
    /\ result' = Moved
    /\ pc' = "returned"
    /\ UNCHANGED <<prog, ip, outs, output, op, f, carg, cpc, borrows, invoked, panic>>

\* mutant of Unwind: the method catches the panic and returns self
Unwind_Suppress ==
    /\ pc = "unwinding"
    /\ ret' = self
    /\ self' = Moved
    /\ f' = Moved
    /\ carg' = Moved
    /\ borrows' = <<>>
    /\ result' = Moved
    /\ panic' = ""
    /\ pc' = "returned"
    /\ UNCHANGED <<prog, ip, outs, output, op, cpc, invoked>>

\* a panic of the closure unwinds through the method, which has no handler:
\* its locals are dropped and the panic reaches the caller
Unwind ==
    /\ pc = "unwinding"
    /\ self' = Moved
    /\ f' = Moved
    /\ carg' = Moved
    /\ borrows' = <<>>
    /\ result' = Moved
    /\ pc' = "panicked"
    /\ UNCHANGED <<prog, ip, outs, output, op, cpc, invoked, ret, panic>>

----------------------------------------------------------------------------
(* The closure.                                                            *)

\* what the closure's parameter shows
Target == IF carg.t = "Ref" THEN self ELSE carg

\* the borrow discipline: a write needs the owned value or a mutable reference,
\* except a write to a Cell, which a shared reference allows
CanWrite(s) ==
    IF carg.t = "Ref" THEN (IF carg.mut THEN TRUE ELSE s.k = "cellSet") ELSE TRUE

AtStmt(kinds) == pc = "closure" /\ cpc <= Len(f.body) /\ f.body[cpc].k \in kinds

ClosureLog ==
    /\ AtStmt({"log"})
    /\ output' = Append(output, Line(f.body[cpc].n, Target))
    /\ cpc' = cpc + 1
    /\ UNCHANGED <<prog, ip, outs, pc, op, self, f, carg, borrows, invoked,
                   result, ret, panic>>

\* a write through the parameter: to the owned value, or to self through the
\* reference (which must be mutable unless self is a Cell)
ClosureWrite ==
    /\ AtStmt(WriteKinds)
    /\ CanWrite(f.body[cpc])
    /\ IF carg.t = "Ref"
       THEN self' = Write(f.body[cpc], self) /\ carg' = carg
       ELSE carg' = Write(f.body[cpc], carg) /\ self' = self
    /\ cpc' = cpc + 1
    /\ UNCHANGED <<prog, ip, outs, output, pc, op, f, borrows, invoked,
                   result, ret, panic>>

ClosurePanic ==
    /\ AtStmt({"panic"})
    /\ panic' = f.body[cpc].msg
    /\ pc' = "unwinding"
    /\ UNCHANGED <<prog, ip, outs, output, op, self, f, carg, cpc, borrows,
                   invoked, result, ret>>

\* the tail expression is evaluated and the closure returns; the borrow ends
ClosureReturn ==
    /\ pc = "closure" /\ cpc > Len(f.body)
    /\ EvalRet(f.ret, Target).ok
    /\ result' = EvalRet(f.ret, Target).val
    /\ carg' = Moved
    /\ f' = Moved
    /\ borrows' = <<>>
    /\ pc' = "resumed"
    /\ UNCHANGED <<prog, ip, outs, output, op, self, cpc, invoked, ret, panic>>

\* the tail expression panics (division by zero)
ClosureTailPanic ==
    /\ pc = "closure" /\ cpc > Len(f.body)
    /\ ~EvalRet(f.ret, Target).ok
    /\ panic' = EvalRet(f.ret, Target).msg
    /\ pc' = "unwinding"
    /\ UNCHANGED <<prog, ip, outs, output, op, self, f, carg, cpc, borrows,
                   invoked, result, ret>>

----------------------------------------------------------------------------

Next ==
    \/ CallUsing \/ CallAlso \/ CallApply
    \/ UsingInvoke \/ AlsoInvoke \/ ApplyInvoke
    \/ ClosureLog \/ ClosureWrite \/ ClosurePanic
    \/ ClosureReturn \/ ClosureTailPanic
    \/ UsingReturn \/ AlsoReturn \/ ApplyReturn
    \/ Unwind \/ Resume
    \/ CallerWritelnDebug \/ CallerWritelnSum \/ CallerSummary

Spec == Init /\ [][Next]_vars

TypeOK ==
    /\ pc \in {"idle", "entry", "closure", "resumed", "returned", "unwinding", "panicked"}
    /\ ip \in 1..(Len(prog) + 1)
    /\ invoked \in 0..1

----------------------------------------------------------------------------
(* What a closure denotes, as a function of the value it is given.         *)

\* the value the closure leaves in the place its parameter shows, if no
\* statement panics
RECURSIVE FinalValue(_, _)
FinalValue(body, v) ==
    IF body = <<>> THEN v
    ELSE FinalValue(Tail(body), IF IsWrite(Head(body)) THEN Write(Head(body), v) ELSE v)

\* the closure's outcome: Ok(its value) or Err(the payload of its panic)
RECURSIVE Outcome(_, _, _)
Outcome(body, e, v) ==
    IF body = <<>> THEN EvalRet(e, v)
    ELSE IF Head(body).k = "panic" THEN Err(Head(body).msg)
    ELSE Outcome(Tail(body), e, IF IsWrite(Head(body)) THEN Write(Head(body), v) ELSE v)

\* the lines the closure writes
RECURSIVE Logs(_, _)
Logs(body, v) ==
    IF body = <<>> THEN <<>>
    ELSE IF Head(body).k = "panic" THEN <<>>
    ELSE IF Head(body).k = "log" THEN <<Line(Head(body).n, v)>> \o Logs(Tail(body), v)
    ELSE Logs(Tail(body), Write(Head(body), v))

Pure(c) == c.body = <<>>
WritesNothing(c) == \A i \in 1..Len(c.body) : ~IsWrite(c.body[i])
Writes(c, kinds) == \E i \in 1..Len(c.body) : c.body[i].k \in kinds

\* the call in progress: its closure and its receiver
InCall == pc \in {"entry", "closure", "resumed", "returned", "unwinding", "panicked"}
CurF == prog[ip].f
CurV == ArgOf(prog[ip])

----------------------------------------------------------------------------
(* C1: using(v, f) with a pure closure f returns exactly f(v); f is        *)
(* invoked exactly once and its argument is v itself.                      *)
C1_UsingReturnsClosureResult ==
    (InCall /\ op = "using" /\ Pure(CurF)) =>
        /\ pc = "closure" => (invoked = 1 /\ carg = CurV)
        /\ pc = "returned" => (invoked = 1 /\ ret = EvalRet(CurF.ret, CurV).val)

C1_Witness ==
    /\ pc = "returned" /\ op = "using" /\ Pure(CurF)
    /\ CurF.ret = RetConst(7) /\ ret = IntV(7) /\ CurV \in PersonValues

(* C2 as stated: for every value and every closure, also(v, g) returns a   *)
(* value equal to the original v; g is invoked exactly once and is shown a *)
(* read-only view whose content is the original v.                         *)
C2_AlsoReturnsOriginal_AnyClosure ==
    (InCall /\ op = "also") =>
        /\ (pc = "closure" /\ cpc = 1) => (invoked = 1 /\ carg = Ref(FALSE) /\ Target = CurV)
        /\ pc = "returned" => (invoked = 1 /\ ret = CurV)

(* C2, amended: the same for every closure that does not write to v        *)
(* through the shared reference (interior mutability); then the view       *)
(* equals the original v for as long as the closure runs.  With a closure  *)
(* that does write to a Cell, also returns the value as the closure left   *)
(* it.                                                                     *)
C2_AlsoReturnsOriginal ==
    (InCall /\ op = "also") =>
        /\ pc = "closure" => (invoked = 1 /\ carg = Ref(FALSE) /\ borrows = <<"shared">>)
        /\ (pc = "closure" /\ (cpc = 1 \/ WritesNothing(CurF))) => Target = CurV
        /\ pc = "returned" =>
            /\ invoked = 1
            /\ WritesNothing(CurF) => ret = CurV
            /\ ret = FinalValue(CurF.body, CurV)

C2_Witness ==
    /\ pc = "returned" /\ op = "also" /\ CurV = IntV(2) /\ ret = IntV(2)
    /\ CurF.body = <<Log(1), Log(2)>> /\ Len(output) = 2

(* C3: apply(v, h) returns the value that h's mutation makes of v; h is    *)
(* invoked exactly once, starts from the original v, and holds the only    *)
(* borrow of the value, a mutable one, from its start to its end.          *)
C3_ApplyReturnsMutated ==
    (InCall /\ op = "apply") =>
        /\ pc = "closure" => (invoked = 1 /\ carg = Ref(TRUE) /\ borrows = <<"mut">>)
        /\ (pc = "closure" /\ cpc = 1) => self = CurV
        /\ pc = "closure" => self = FinalValue(SubSeq(CurF.body, 1, cpc - 1), CurV)
        /\ pc \in {"resumed", "returned"} => borrows = <<>>
        /\ pc = "returned" => (invoked = 1 /\ ret = FinalValue(CurF.body, CurV))

C3_Witness ==
    /\ pc = "returned" /\ op = "apply" /\ CurV = PersonV("Mike", 25)
    /\ CurF.body = <<SetName("Linda"), IncAge>> /\ ret = PersonV("Linda", 26)

(* C4: when the closure fails, the call ends in that same failure: the     *)
(* panic that reaches the caller carries the closure's payload, no value   *)
(* is returned (not v by also, not a partly mutated v by apply), the       *)
(* closure is not run again and the caller does not go on; and a call      *)
(* whose closure succeeds never fails.                                     *)
C4_FailurePropagates ==
    InCall =>
        LET o == Outcome(CurF.body, CurF.ret, CurV) IN
        /\ pc \in {"unwinding", "panicked"} => (~o.ok /\ panic = o.msg /\ invoked = 1)
        /\ pc = "panicked" => (ret = Moved /\ self = Moved /\ ~ENABLED Next)
        /\ pc \in {"resumed", "returned"} => (o.ok /\ panic = "")
        /\ (~o.ok) => pc \notin {"resumed", "returned"}

C4_Witness ==
    /\ pc = "panicked" /\ op = "apply" /\ CurV = Create("Mike")
    /\ CurF.body = <<SetAge(34), Panic("boom")>> /\ panic = "boom" /\ ret = Moved

(* C5: the value also and apply return does not depend on what the closure *)
(* returns: two calls of the same method on the same value, with closures  *)
(* of the same body and different tail expressions, return the same value. *)
SameButTail ==
    /\ Len(prog) = 2 /\ ip = 2 /\ Len(outs) = 1
    /\ prog[1].k = "call" /\ prog[2].k = "call"
    /\ prog[1].op = prog[2].op /\ prog[1].op \in {"also", "apply"}
    /\ prog[1].v = prog[2].v
    /\ prog[1].f.body = prog[2].f.body

C5_ClosureResultDiscarded ==
    /\ (SameButTail /\ pc = "returned") => ret = outs[1]
    /\ (pc = "returned" /\ op \in {"also", "apply"}) => (result = Moved /\ ret.t = CurV.t)

C5_Witness ==
    /\ SameButTail /\ pc = "returned" /\ op = "apply"
    /\ prog[1].f.ret = RetUnit /\ prog[2].f.ret = RetAge
    /\ prog[1].f.body = <<IncAge>> /\ ret = outs[1]

(* C6: the closure runs inside the call and calls run in order: a method   *)
(* returns only after its closure was started and has finished, and the    *)
(* lines written are those of the calls made so far, in the order of the   *)
(* calls.  The also doctest writes the lines for 2, 4, 6, 8 in that order, *)
(* each once, and then the sum line with 20.                               *)
CallsOnly == \A i \in 1..Len(prog) : prog[i].k = "call"

\* the receiver of the i-th call of a program of calls
ArgAt(i) == IF prog[i].v.t = "Prev" THEN outs[i - 1] ELSE prog[i].v

\* the lines of the first n calls of a program of calls
RECURSIVE ExpectedOutput(_)
ExpectedOutput(n) ==
    IF n = 0 THEN <<>>
    ELSE ExpectedOutput(n - 1) \o Logs(prog[n].f.body, ArgAt(n))

AlsoDoctestOutput ==
    <<Line(1, IntV(2)), Line(2, IntV(4)), Line(3, IntV(6)), Line(4, IntV(8)), SumLine(20)>>

C6_SynchronousInOrder ==
    /\ pc = "entry" => invoked = 0
    /\ pc \in {"resumed", "returned"} =>
          (invoked = 1 /\ cpc = Len(CurF.body) + 1 /\ f = Moved /\ carg = Moved)
    /\ CallsOnly =>
          /\ pc \in {"idle", "entry"} => output = ExpectedOutput(ip - 1)
          /\ pc \in {"resumed", "returned", "panicked"} => output = ExpectedOutput(ip)
    /\ (prog = AlsoDoctest /\ pc = "idle") =>
          /\ output = SubSeq(AlsoDoctestOutput, 1, ip - 1)
          /\ ip > Len(prog) => output = AlsoDoctestOutput

C6_Witness ==
    /\ prog = AlsoDoctest /\ pc = "idle" /\ ip > Len(prog)
    /\ output = AlsoDoctestOutput /\ outs = <<IntV(2), IntV(4), IntV(6), IntV(8)>>

(* C7: also with a no-op closure is the identity: chained any number of    *)
(* times on v it returns v, writes nothing and does not fail.              *)
NoOpChain ==
    \A i \in 1..Len(prog) :
        /\ prog[i].k = "call" /\ prog[i].op = "also" /\ prog[i].f = NoOp
        /\ i > 1 => prog[i].v = Prev

C7_AlsoNoOpIdentity ==
    NoOpChain =>
        /\ pc = "returned" => ret = prog[1].v
        /\ \A i \in 1..Len(outs) : outs[i] = prog[1].v
        /\ output = <<>> /\ panic = "" /\ pc # "panicked"
        /\ pc = "closure" => self = prog[1].v

C7_Witness ==
    /\ NoOpChain /\ Len(prog) >= 3 /\ ip = Len(prog) /\ pc = "returned"
    /\ prog[1].v = CellV(1) /\ ret = CellV(1)

(* C8: using with the closure (sum / len, v[len / 2]) returns the pair     *)
(* computed on the list in its given order: [8,4,19,30,1,0] yields         *)
(* (10, 30) and [1,4,7,11,9,5] yields (6, 11).                             *)
C8_AverageAndMedian ==
    /\ (pc = "returned" /\ op = "using" /\ CurF = Closure(<<>>, RetAvgMed)) =>
          /\ CurV = VecV(<<8, 4, 19, 30, 1, 0>>) => ret = PairV(10, 30)
          /\ CurV = VecV(<<1, 4, 7, 11, 9, 5>>) => ret = PairV(6, 11)
    /\ (prog = UsingDoctest /\ pc = "idle" /\ ip > Len(prog)) =>
          output = <<DebugLine(PairV(10, 30)), DebugLine(PairV(6, 11))>>

C8_Witness ==
    /\ prog = UsingDoctest /\ pc = "idle" /\ ip > Len(prog)
    /\ outs = <<PairV(10, 30), PairV(6, 11)>>

(* C9: apply changes only what its closure writes: a field the closure     *)
(* does not write is the same in the returned value as in the input.  A    *)
(* Person created with a name (age 0) and applied p.age = a comes back     *)
(* with the same name and age a: Mike/34 and Linda/25 in the doctest.      *)
C9_ApplyFrame ==
    /\ (pc = "returned" /\ op = "apply") =>
          /\ WritesNothing(CurF) => ret = CurV
          /\ CurV.t = "Person" =>
                /\ ~Writes(CurF, {"setName"}) => ret.name = CurV.name
                /\ ~Writes(CurF, {"setAge", "incAge"}) => ret.age = CurV.age
          /\ \A n \in Names, a \in Ages :
                (CurV = Create(n) /\ CurF.body = <<SetAge(a)>>) => ret = PersonV(n, a)
    /\ (prog = ApplyDoctest /\ pc = "idle" /\ ip > Len(prog)) =>
          outs = <<Summary(PersonV("Mike", 34)), Summary(PersonV("Linda", 25))>>

C9_Witness ==
    /\ prog = ApplyDoctest /\ pc = "returned" /\ ip = 3
    /\ outs = <<Summary(PersonV("Mike", 34))>> /\ ret = PersonV("Linda", 25)

(* C10: chained calls compose and no call leaves state behind:             *)
(* v.apply(h1).apply(h2) equals v.apply(h1 followed by h2), h1 having run  *)
(* once before h2 ran once; what a call returns is determined by its own   *)
(* receiver and closure, whatever calls came before; between calls the     *)
(* methods hold nothing.                                                   *)
ChainShape ==
    /\ Len(prog) = 3
    /\ \A i \in 1..3 : prog[i].k = "call" /\ prog[i].op = "apply"
    /\ prog[2].v = Prev
    /\ prog[3].v = prog[1].v
    /\ prog[3].f = Compose(prog[1].f, prog[2].f)

ExpectedRet ==
    CASE op = "using" -> Outcome(CurF.body, CurF.ret, CurV).val
      [] op = "also" -> FinalValue(CurF.body, CurV)
      [] op = "apply" -> FinalValue(CurF.body, CurV)

C10_ChainsCompose ==
    /\ (ChainShape /\ ip = 3) =>
          LET logs12 == Logs(prog[1].f.body, prog[1].v) \o Logs(prog[2].f.body, outs[1]) IN
          /\ outs[2] = FinalValue(prog[2].f.body, FinalValue(prog[1].f.body, prog[1].v))
          /\ pc = "idle" => output = logs12
          /\ pc = "returned" => (ret = outs[2] /\ output = logs12 \o logs12)
          /\ pc # "panicked"
    /\ pc = "returned" => ret = ExpectedRet
    /\ pc = "idle" =>
          (self = Moved /\ f = Moved /\ carg = Moved /\ result = Moved /\ borrows = <<>>)

C10_Witness ==
    /\ ChainShape /\ ip = 3 /\ pc = "returned"
    /\ prog[1].v = PersonV("Mike", 0)
    /\ prog[1].f.body = <<SetAge(34)>> /\ prog[2].f.body = <<IncAge>>
    /\ ret = PersonV("Mike", 35) /\ outs[2] = ret

====
